---- MODULE Spec2Model ----
(***************************************************************************)
(* Model of the CTE codec (pmd_cte/src/lib.rs) and of the two commands of  *)
(* ctetool (ctetool/src/main.rs) that drive it.                            *)
(*                                                                         *)
(* The state is the content of the two files the commands work on (the     *)
(* .img CTE file and the raster image file) together with the outcome of   *)
(* the last command.  decode_cte and encode_cte are pure functions of the  *)
(* stream / image they are given; they are operators computed the way the  *)
(* code computes them (sequential reads, nested block loops, put_pixel).   *)
(***************************************************************************)
EXTENDS Integers, Sequences, FiniteSets, TLC

VARIABLES cteFile, imgFile, last, prev

vars == <<cteFile, imgFile, last, prev>>

(* ---------------------------- bounds ----------------------------------- *)
\* largest number of 8-pixel sections in a generated width or height
MaxSec == 2
\* payload / picture patterns are numbered 0..MaxSeed
MaxSeed == 2

(* ------------------------- program constants --------------------------- *)
CTE_HEADER_SIZE == 28
CTE_HEADER == <<0, 99, 116, 101>>
\* the payload offset encode_cte always writes
EncodedPixelStart == 128
\* number of bytes of a block (`[0; 64]`)
SectionLen == 64

\* number of values of a u8
U8 == 256

(* ------------------------------ helpers -------------------------------- *)
\* slip: the four bytes most significant first
write_u32_BE(n) ==
    << (n \div (U8 * U8 * U8)) % U8, (n \div (U8 * U8)) % U8,
       (n \div U8) % U8, n % U8 >>

\* write_u32::<LE>
write_u32(n) ==
    << n % U8, (n \div U8) % U8, (n \div (U8 * U8)) % U8,
       (n \div (U8 * U8 * U8)) % U8 >>

\* read_u32::<LE> of the 4 bytes that follow position pos (0-based)
read_u32(input, pos) ==
    input[pos + 1] + U8 * input[pos + 2] + U8 * U8 * input[pos + 3]
      + U8 * U8 * U8 * input[pos + 4]

\* Read::read_exact succeeds iff n more bytes are available after pos
read_exact_ok(input, pos, n) == pos + n <= Len(input)

Zeros(n) == [i \in 1..n |-> 0]

(* ------------------------------ CteFormat ------------------------------ *)
from_id(id) == IF id = 8 THEN "A8" ELSE "None"

get_id(format) == CASE format = "A8" -> 8

get_pixel_length_bit(format) == CASE format = "A8" -> 8

check_pixel_lenght_bit(format, lenght) == lenght = get_pixel_length_bit(format)

(* ------------------------------- images -------------------------------- *)
Coords(w, h) == (0..(w - 1)) \X (0..(h - 1))

\* ImageBuffer::new(width, height): every channel zero
NewImage(w, h) ==
    [exists |-> TRUE, width |-> w, height |-> h,
     px |-> [c \in Coords(w, h) |-> <<0, 0, 0, 0>>]]

NoImage == [exists |-> FALSE, width |-> 0, height |-> 0,
            px |-> [c \in Coords(0, 0) |-> <<0, 0, 0, 0>>]]

get_pixel(image, x, y) == image.px[<<x, y>>]

(* ------------------------ block traversal order ------------------------ *)
pair1 == << <<0, 4>>, <<4, 4>>, <<0, 0>>, <<4, 0>> >>
pair2 == << <<0, 2>>, <<2, 2>>, <<0, 0>>, <<2, 0>> >>
pair3 == << <<0, 1>>, <<1, 1>>, <<0, 0>>, <<1, 0>> >>

\* slip: the block read row by row
ImageOrder_RowMajor(j) == << j % 8, j \div 8 >>

\* the (x, y) handed to func at the j-th call (j = 0..63) of
\* read_in_image_order: pair1 is the outermost loop, pair3 the innermost
ImageOrder(j) ==
    LET p1 == pair1[(j \div 16) + 1]
        p2 == pair2[((j \div 4) % 4) + 1]
        p3 == pair3[(j % 4) + 1]
    IN  << p1[1] + p2[1] + p3[1], p1[2] + p2[2] + p3[2] >>

\* the closure decode_cte passes to read_in_image_order (A8 unpack)
UnpackA8(v) ==
    LET alpha == ((v % 16) * 16) % U8
        white == v \div 16
    IN  <<white, white, white, alpha>>

\* the 64 (x, y) of one run of the three nested loops, in call order
ImageOrderTable == [j \in 0..(SectionLen - 1) |-> ImageOrder(j)]

\* the calls j of read_in_image_order that hand func the image pixel c
CallsAt(c, start_x, start_y) ==
    {j \in 0..(SectionLen - 1) :
        ImageOrderTable[j] = <<c[1] - start_x, c[2] - start_y>>}

Last(calls) == CHOOSE j \in calls : \A i \in calls : i <= j

\* read_in_image_order(&section, closure): the 64 calls of the closure, in
\* order, each a put_pixel; a pixel keeps what the last call put there, and
\* a pixel no call names keeps what it held
read_in_image_order(section, start_x, start_y, image) ==
    [image EXCEPT !.px =
        [c \in DOMAIN image.px |->
            LET calls == CallsAt(c, start_x, start_y)
            IN  IF calls = {} THEN image.px[c]
                ELSE UnpackA8(section[Last(calls) + 1])]]

(* ------------------------------ decode_cte ----------------------------- *)
\* result of a decode_cte call: the Result tag, the error's payload, the
\* number of bytes taken from the stream, the decoded image and its format
DecodeResult(tag, val, consumed, image, format) ==
    [tag |-> tag, val |-> val, consumed |-> consumed, image |-> image,
     format |-> format]

\* a read_exact that hits the end of the stream: io::Error, and the reader
\* has drained what was left
DecodeIOError(input) ==
    DecodeResult("IOError", <<>>, Len(input), NoImage, "None")

\* slip: the blocks of a block-row laid out right to left
RECURSIVE DecodeRow_RightToLeft(_, _, _, _, _)
DecodeRow_RightToLeft(input, y, x, width_section, st) ==
    IF x >= width_section \/ ~st.ok THEN st
    ELSE IF ~read_exact_ok(input, st.pos, SectionLen)
         THEN [st EXCEPT !.ok = FALSE]
         ELSE LET section == SubSeq(input, st.pos + 1, st.pos + SectionLen)
                  start_x == (width_section - 1 - x) * 8
                  start_y == y * 8
              IN  DecodeRow_RightToLeft(input, y, x + 1, width_section,
                      [pos |-> st.pos + SectionLen,
                       image |-> read_in_image_order(section, start_x,
                                                     start_y, st.image),
                       ok |-> TRUE])

\* inner loop `for x in 0..width_section` of one block-row y;
\* st = [pos, image, ok] is the reader position, the image so far and
\* whether every read_exact succeeded
RECURSIVE DecodeRow(_, _, _, _, _)
DecodeRow(input, y, x, width_section, st) ==
    IF x >= width_section \/ ~st.ok THEN st
    ELSE IF ~read_exact_ok(input, st.pos, SectionLen)
         THEN [st EXCEPT !.ok = FALSE]
         ELSE LET section == SubSeq(input, st.pos + 1, st.pos + SectionLen)
                  start_x == x * 8
                  start_y == y * 8
              IN  DecodeRow(input, y, x + 1, width_section,
                      [pos |-> st.pos + SectionLen,
                       image |-> read_in_image_order(section, start_x,
                                                     start_y, st.image),
                       ok |-> TRUE])

\* outer loop `for y in (0..height_section).rev()`
RECURSIVE DecodeRows(_, _, _, _)
DecodeRows(input, y, width_section, st) ==
    IF y < 0 \/ ~st.ok THEN st
    ELSE DecodeRows(input, y - 1, width_section,
                    DecodeRow(input, y, 0, width_section, st))

\* slip: the height looked at before the width
DecodePayload_HeightFirst(input, pos, image_format, width, height) ==
    IF height % 8 # 0
    THEN DecodeResult("HeightNotMultiple8", <<height>>, pos, NoImage, "None")
    ELSE IF width % 8 # 0
    THEN DecodeResult("WidthNotMultiple8", <<width>>, pos, NoImage, "None")
    ELSE LET st == DecodeRows(input, (height \div 8) - 1, width \div 8,
                              [pos |-> pos, image |-> NewImage(width, height),
                               ok |-> TRUE])
         IN  IF st.ok
             THEN DecodeResult("Ok", <<>>, st.pos, st.image, image_format)
             ELSE DecodeIOError(input)

\* the part of decode_cte after the padding has been skipped
DecodePayload(input, pos, image_format, width, height) ==
    IF width % 8 # 0
    THEN DecodeResult("WidthNotMultiple8", <<width>>, pos, NoImage, "None")
    ELSE IF height % 8 # 0
    THEN DecodeResult("HeightNotMultiple8", <<height>>, pos, NoImage, "None")
    ELSE LET width_section == width \div 8
             height_section == height \div 8
             st == DecodeRows(input, height_section - 1, width_section,
                              [pos |-> pos, image |-> NewImage(width, height),
                               ok |-> TRUE])
         IN  IF st.ok
             THEN DecodeResult("Ok", <<>>, st.pos, st.image, image_format)
             ELSE DecodeIOError(input)

\* slip: the payload taken to follow the fixed header, the padding not skipped
DecodeFields_NoSkip(input, image_format) ==
    LET width == read_u32(input, 8)
        height == read_u32(input, 12)
        pixel_lenght == read_u32(input, 16)
        pixel_start_offset == read_u32(input, 24)
    IN  IF ~check_pixel_lenght_bit(image_format, pixel_lenght)
        THEN DecodeResult("PixelLenghtInvalid", <<pixel_lenght, image_format>>,
                          CTE_HEADER_SIZE, NoImage, "None")
        ELSE IF pixel_start_offset < CTE_HEADER_SIZE
        THEN DecodeResult("ImageStartTooSoon", <<pixel_start_offset>>,
                          CTE_HEADER_SIZE, NoImage, "None")
        ELSE DecodePayload(input, CTE_HEADER_SIZE, image_format, width, height)

\* the part of decode_cte after the 28 fixed header bytes have been read
DecodeFields(input, image_format) ==
    LET width == read_u32(input, 8)
        height == read_u32(input, 12)
        pixel_lenght == read_u32(input, 16)
        pixel_start_offset == read_u32(input, 24)
    IN  IF ~check_pixel_lenght_bit(image_format, pixel_lenght)
        THEN DecodeResult("PixelLenghtInvalid", <<pixel_lenght, image_format>>,
                          CTE_HEADER_SIZE, NoImage, "None")
        ELSE IF pixel_start_offset < CTE_HEADER_SIZE
        THEN DecodeResult("ImageStartTooSoon", <<pixel_start_offset>>,
                          CTE_HEADER_SIZE, NoImage, "None")
        ELSE LET distance_before_start == pixel_start_offset - CTE_HEADER_SIZE
             IN  IF ~read_exact_ok(input, CTE_HEADER_SIZE, distance_before_start)
                 THEN DecodeIOError(input)
                 ELSE DecodePayload(input,
                                    CTE_HEADER_SIZE + distance_before_start,
                                    image_format, width, height)

\* slip: the magic compared only once the whole fixed header has been read
InvalideHeader_AfterHeader(header_buffer) ==
    DecodeResult("InvalideHeader", header_buffer, CTE_HEADER_SIZE, NoImage,
                 "None")

\* `return Err(CteDecodeError::InvalideHeader(header_buffer))`, taken when
\* only the 4 magic bytes have been read
InvalideHeader(header_buffer) ==
    DecodeResult("InvalideHeader", header_buffer, 4, NoImage, "None")

decode_cte(input) ==
    IF ~read_exact_ok(input, 0, 4) THEN DecodeIOError(input)
    ELSE LET header_buffer == SubSeq(input, 1, 4)
         IN  IF header_buffer # CTE_HEADER
             THEN InvalideHeader(header_buffer)
             ELSE IF ~read_exact_ok(input, 4, 4) THEN DecodeIOError(input)
             ELSE LET format_id == read_u32(input, 4)
                      image_format == from_id(format_id)
                  IN  IF image_format = "None"
                      THEN DecodeResult("UnsuportedFormat", <<format_id>>, 8,
                                        NoImage, "None")
                      \* width, height, pixel_lenght, _unk, pixel_start_offset
                      ELSE IF ~read_exact_ok(input, 8, 20)
                      THEN DecodeIOError(input)
                      ELSE DecodeFields(input, image_format)

(* ------------------------------ encode_cte ----------------------------- *)
\* the nested pair loops written out in encode_cte
enc_pair1 == << <<0, 4>>, <<4, 4>>, <<0, 0>>, <<4, 0>> >>
enc_pair2 == << <<0, 2>>, <<2, 2>>, <<0, 0>>, <<2, 0>> >>
\* slip: the innermost 2 x 2 quadrant taken row by row
enc_pair3_RowMajor == << <<0, 0>>, <<1, 0>>, <<0, 1>>, <<1, 1>> >>
enc_pair3 == << <<0, 1>>, <<1, 1>>, <<0, 0>>, <<1, 0>> >>

\* offset of the j-th pixel (j = 0..63) encode_cte takes from a block
EncodeOrder(j) ==
    LET p1 == enc_pair1[(j \div 16) + 1]
        p2 == enc_pair2[((j \div 4) % 4) + 1]
        p3 == enc_pair3[(j % 4) + 1]
    IN  << p1[1] + p2[1] + p3[1], p1[2] + p2[2] + p3[2] >>

\* slip: the high four bits of the average kept instead of the low four
PackA8_HighNibble(pixel) ==
    LET white == ((pixel[1] + pixel[2] + pixel[3]) \div 3) % U8
        alpha == pixel[4]
    IN  ((white \div 16) * 16) + (alpha \div 16)

\* the A8 arm: white is computed in u16 and cast to u8, overflowing_shl(4)
\* keeps the low 8 bits; the final + is a plain u8 addition, kept unreduced
\* here so that an overflow would show as a value above 255
PackA8(pixel) ==
    LET white == ((pixel[1] + pixel[2] + pixel[3]) \div 3) % U8
        alpha == pixel[4]
    IN  ((white * 16) % U8) + (alpha \div 16)

\* the 64 bytes written for the block at (x_base, y_base)
EncodeBlock(image, x_base, y_base) ==
    [i \in 1..SectionLen |->
        LET o == EncodeOrder(i - 1)
        IN  PackA8(get_pixel(image, x_base + o[1], y_base + o[2]))]

\* inner loop `for x_base in 0..width_section`
RECURSIVE EncodeRow(_, _, _, _, _)
EncodeRow(image, y_base, x_base, width_section, out) ==
    IF x_base >= width_section THEN out
    ELSE EncodeRow(image, y_base, x_base + 1, width_section,
                   out \o EncodeBlock(image, x_base * 8, y_base * 8))

\* outer loop `for y_base in (0..height_section).rev()`
RECURSIVE EncodeRows(_, _, _, _)
EncodeRows(image, y_base, width_section, out) ==
    IF y_base < 0 THEN out
    ELSE EncodeRows(image, y_base - 1, width_section,
                    EncodeRow(image, y_base, 0, width_section, out))

\* slip: the height written before the width
EncodeHeader_HeightFirst(format, image) ==
    CTE_HEADER \o write_u32(get_id(format)) \o write_u32(image.height)
      \o write_u32(image.width) \o write_u32(get_pixel_length_bit(format))
      \o write_u32(0) \o write_u32(EncodedPixelStart)
      \o Zeros(128 - CTE_HEADER_SIZE)

\* the header and padding encode_cte writes before it looks at the size
EncodeHeader(format, image) ==
    CTE_HEADER \o write_u32(get_id(format)) \o write_u32(image.width)
      \o write_u32(image.height) \o write_u32(get_pixel_length_bit(format))
      \o write_u32(0) \o write_u32(EncodedPixelStart)
      \o Zeros(128 - CTE_HEADER_SIZE)

\* slip: the height looked at before the width
encode_cte_HeightFirst(format, image) ==
    LET header == EncodeHeader(format, image)
    IN  IF image.height % 8 # 0
        THEN [tag |-> "HeightNotMultiple8", val |-> <<image.height>>,
              out |-> header]
        ELSE IF image.width % 8 # 0
        THEN [tag |-> "WidthNotMultiple8", val |-> <<image.width>>,
              out |-> header]
        ELSE [tag |-> "Ok", val |-> <<>>,
              out |-> EncodeRows(image, (image.height \div 8) - 1,
                                 image.width \div 8, header)]

\* result of an encode_cte call on a writer that never fails: the Result
\* tag, the error's payload and everything that was written to `out`
encode_cte(format, image) ==
    LET header == EncodeHeader(format, image)
    IN  IF image.width % 8 # 0
        THEN [tag |-> "WidthNotMultiple8", val |-> <<image.width>>,
              out |-> header]
        ELSE IF image.height % 8 # 0
        THEN [tag |-> "HeightNotMultiple8", val |-> <<image.height>>,
              out |-> header]
        ELSE LET height_section == image.height \div 8
                 width_section == image.width \div 8
             IN  [tag |-> "Ok", val |-> <<>>,
                  out |-> EncodeRows(image, height_section - 1, width_section,
                                     header)]

(* ------------------------- files given to ctetool ---------------------- *)
ValidDims == {8 * i : i \in 1..MaxSec}
Widths == ValidDims \cup {10}
Heights == ValidDims \cup {12}
Magics == {CTE_HEADER, <<0, 99, 116, 102>>}
FormatIds == {8, 7}
PixelLenghts == {8, 4}
Offsets == {0, 27, 28, 30, 128}
Seeds == 0..MaxSeed

PayloadByte(seed, i) == (seed * 85 + i * (2 * seed + 1)) % U8
PaddingByte(seed, i) == (seed + 3 * i + 1) % U8

\* a .img file laid out as decode_cte reads it: magic, six u32 fields,
\* padding up to the declared offset, one byte per pixel
CteBytes(magic, format_id, width, height, pixel_lenght, offset, seed) ==
    LET padLen == IF offset > CTE_HEADER_SIZE THEN offset - CTE_HEADER_SIZE
                  ELSE 0
    IN  magic \o write_u32(format_id) \o write_u32(width) \o write_u32(height)
          \o write_u32(pixel_lenght) \o write_u32(1000 * seed + 5)
          \o write_u32(offset)
          \o [i \in 1..padLen |-> PaddingByte(seed, i)]
          \o [i \in 1..(width * height) |-> PayloadByte(seed, i - 1)]

\* lengths a file of n bytes with p payload bytes is truncated to: whole,
\* one byte short, one byte short of the payload, and inside the header
Cuts(n, p) == {n, n - 1, n - p - 1, 20, 6, 2}

\* a picture as ImageReader::open(..).decode() hands it over
Picture(width, height, seed) ==
    [exists |-> TRUE, width |-> width, height |-> height,
     px |-> [c \in Coords(width, height) |->
               << (c[1] * 31 + c[2] * 17 + seed * 101) % U8,
                  (c[1] * 13 + c[2] * 29 + seed * 53 + 7) % U8,
                  (c[1] * c[2] + seed * 11) % U8,
                  (U8 - 1) - ((c[1] * 16 + c[2] + seed * 40) % U8) >>]]

NoFile == [exists |-> FALSE, bytes |-> <<>>]
File(bytes) == [exists |-> TRUE, bytes |-> bytes]

NoCommand ==
    [cmd |-> "none", tag |-> "none", val |-> <<>>, consumed |-> 0,
     format |-> "None"]

(* ------------------------------ the machine ---------------------------- *)
InitExtract ==
    /\ \E magic \in Magics, format_id \in FormatIds, width \in Widths,
          height \in Heights, pixel_lenght \in PixelLenghts,
          offset \in Offsets, seed \in Seeds :
         LET bytes == CteBytes(magic, format_id, width, height, pixel_lenght,
                               offset, seed)
         IN  \E keep \in Cuts(Len(bytes), width * height) :
                cteFile = File(SubSeq(bytes, 1, keep))
    /\ imgFile = NoImage

InitEncode ==
    /\ \E width \in Widths, height \in Heights, seed \in Seeds :
         imgFile = Picture(width, height, seed)
    /\ cteFile = NoFile

Init ==
    /\ InitExtract \/ InitEncode
    /\ last = NoCommand
    /\ prev = [cmd |-> "none", tag |-> "none", cte |-> NoFile, img |-> NoImage]

\* what the command before this one was, and the files it left
Remember ==
    prev' = [cmd |-> last.cmd, tag |-> last.tag, cte |-> cteFile,
             img |-> imgFile]

\* ctetool extract <cte> <picture>: decode_cte(..).unwrap(), then save
Extract ==
    /\ cteFile.exists
    /\ LET r == decode_cte(cteFile.bytes)
       IN  /\ imgFile' = IF r.tag = "Ok" THEN r.image ELSE imgFile
           /\ last' = [cmd |-> "extract", tag |-> r.tag, val |-> r.val,
                       consumed |-> r.consumed, format |-> r.format]
    /\ Remember
    /\ UNCHANGED cteFile

\* ctetool encode <picture> <cte>: File::create, then encode_cte(..).unwrap()
Encode ==
    /\ imgFile.exists
    /\ LET r == encode_cte("A8", imgFile)
       IN  /\ cteFile' = File(r.out)
           /\ last' = [cmd |-> "encode", tag |-> r.tag, val |-> r.val,
                       consumed |-> 0, format |-> "A8"]
    /\ Remember
    /\ UNCHANGED imgFile

Next == Extract \/ Encode

Spec == Init /\ [][Next]_vars

TypeOK ==
    /\ cteFile.exists \in BOOLEAN
    /\ \A i \in 1..Len(cteFile.bytes) : cteFile.bytes[i] \in 0..(U8 - 1)
    /\ imgFile.exists \in BOOLEAN
    /\ last.cmd \in {"none", "extract", "encode"}

(* ------------------------- vocabulary of the claims -------------------- *)
\* the header fields of a stream of at least 28 bytes, read off the wire
\* format table (offsets 4, 8, 12, 16, 24)
HdrComplete(s) == Len(s) >= 28
HdrMagicOk(s) == SubSeq(s, 1, 4) = <<0, 99, 116, 101>>
HdrFormatId(s) == s[5] + 256 * s[6] + 65536 * s[7] + 16777216 * s[8]
HdrWidth(s) == s[9] + 256 * s[10] + 65536 * s[11] + 16777216 * s[12]
HdrHeight(s) == s[13] + 256 * s[14] + 65536 * s[15] + 16777216 * s[16]
HdrPixelBits(s) == s[17] + 256 * s[18] + 65536 * s[19] + 16777216 * s[20]
HdrOffset(s) == s[25] + 256 * s[26] + 65536 * s[27] + 16777216 * s[28]

\* magic, format id and pixel bit length of an A8 file
HdrA8(s) ==
    /\ HdrComplete(s)
    /\ HdrMagicOk(s)
    /\ HdrFormatId(s) = 8
    /\ HdrPixelBits(s) = 8

\* payload byte number n (0-based) of stream s
PayloadAt(s, n) == s[HdrOffset(s) + n + 1]

\* j-th entry (j = 0..63) of the outer/middle/inner traversal, in closed
\* form: entry i of each offset list is (step * (i mod 2), step * (1 - i div 2))
TraversalX(j) == 4 * ((j \div 16) % 2) + 2 * (((j \div 4) % 4) % 2) + (j % 2)
TraversalY(j) ==
    4 * (1 - (j \div 32)) + 2 * (1 - (((j \div 4) % 4) \div 2))
      + (1 - ((j % 4) \div 2))

\* the A8 pixel of byte v, and the A8 byte of a pixel, as the claims state them
PixelOfByte(v) == <<v \div 16, v \div 16, v \div 16, (v % 16) * 16>>
Luminance4(p) == ((p[1] + p[2] + p[3]) \div 3) % 16

ExtractOk == last.cmd = "extract" /\ last.tag = "Ok"
EncodeOk == last.cmd = "encode" /\ last.tag = "Ok"

(* -------------------------------- C1 ----------------------------------- *)
\* C1: after a successful decode of an A8 file of width W and height H,
\* payload byte 64*k + j sits at pixel
\* (8*(k mod (W/8)) + dx_j, 8*(H/8 - 1 - (k div (W/8))) + dy_j) with value
\* (v div 16, v div 16, v div 16, (v mod 16)*16); 0xFF gives (15,15,15,240).
C1_DecodePlacement ==
    ExtractOk =>
      LET s == cteFile.bytes
          W == HdrWidth(s)
          H == HdrHeight(s)
      IN  /\ imgFile.width = W /\ imgFile.height = H
          /\ \A k \in 0..((W \div 8) * (H \div 8) - 1), j \in 0..63 :
               LET v == PayloadAt(s, 64 * k + j)
                   x == 8 * (k % (W \div 8)) + TraversalX(j)
                   y == 8 * ((H \div 8) - 1 - (k \div (W \div 8)))
                          + TraversalY(j)
               IN  /\ imgFile.px[<<x, y>>] = PixelOfByte(v)
                   /\ v = 255 => imgFile.px[<<x, y>>] = <<15, 15, 15, 240>>

\* a decoded file of two block-rows and two block-columns holding a 0xFF
C1_Witness ==
    /\ ExtractOk
    /\ prev.cmd = "none"
    /\ HdrWidth(cteFile.bytes) = 16 /\ HdrHeight(cteFile.bytes) = 16
    /\ \E n \in 0..255 : PayloadAt(cteFile.bytes, n) = 255

(* -------------------------------- C2 ----------------------------------- *)
\* C2: header round-trip: when an A8 image whose width and height are
\* multiples of 8 has been encoded, decoding the bytes written succeeds and
\* gives the same format variant, width and height.
C2_HeaderRoundTrip ==
    (last.cmd = "extract" /\ prev.cmd = "encode"
       /\ prev.img.width % 8 = 0 /\ prev.img.height % 8 = 0) =>
      /\ prev.tag = "Ok"
      /\ last.tag = "Ok"
      /\ last.format = "A8"
      /\ imgFile.width = prev.img.width
      /\ imgFile.height = prev.img.height

\* a picture wider than high went through encode, then decode
C2_Witness ==
    /\ last.cmd = "extract" /\ prev.cmd = "encode" /\ prev.tag = "Ok"
    /\ prev.img.width = 16 /\ prev.img.height = 8
    /\ imgFile.width = 16

(* -------------------------------- C3 ----------------------------------- *)
\* pixel (0,0) of block number k of the file, in image coordinates
BlockOrigin(W, H, k) ==
    << 8 * (k % (W \div 8)), 8 * ((H \div 8) - 1 - (k \div (W \div 8))) >>

\* element e of every block is the block's pixel (0,0), in decode and encode
OriginIsElement(e) ==
    /\ ExtractOk =>
         LET s == cteFile.bytes
         IN  \A k \in 0..((imgFile.width \div 8) * (imgFile.height \div 8) - 1) :
               imgFile.px[BlockOrigin(imgFile.width, imgFile.height, k)]
                 = PixelOfByte(PayloadAt(s, 64 * k + e))
    /\ EncodeOk =>
         \A k \in 0..((imgFile.width \div 8) * (imgFile.height \div 8) - 1) :
           LET p == imgFile.px[BlockOrigin(imgFile.width, imgFile.height, k)]
           IN  cteFile.bytes[128 + 64 * k + e + 1]
                 = 16 * Luminance4(p) + (p[4] \div 16)

\* C3 as stated: the pixel at (0,0) of a block is element 2 of its 64 elements
C3_OriginIsElement2 == OriginIsElement(2)

\* C3 amended: the pixel at (0,0) of a block is element 42 (= 2*16 + 2*4 + 2)
\* of its 64 elements, in both decode and encode.
C3_OriginIsElement42 == OriginIsElement(42)

\* a single-block file was decoded and its elements 2 and 42 differ
C3_Witness ==
    /\ ExtractOk
    /\ imgFile.width = 8 /\ imgFile.height = 8
    /\ PayloadAt(cteFile.bytes, 2) # PayloadAt(cteFile.bytes, 42)

(* -------------------------------- C4 ----------------------------------- *)
\* a decode of an A8 header whose width is not a multiple of 8
BadWidthDecoded ==
    /\ last.cmd = "extract"
    /\ HdrA8(cteFile.bytes)
    /\ HdrWidth(cteFile.bytes) % 8 # 0

\* C4 as stated: such a decode fails with WidthNotMultiple8(width) for every
\* value of the payload offset field
C4_WidthErrorAnyOffset ==
    BadWidthDecoded =>
      /\ last.tag = "WidthNotMultiple8"
      /\ last.val = <<HdrWidth(cteFile.bytes)>>

\* C4 amended: such a decode fails with WidthNotMultiple8(width) when the
\* payload offset is at least 28 and the stream holds the offset - 28 padding
\* bytes; an offset below 28 fails with ImageStartTooSoon(offset) and a
\* stream that ends inside the padding with IOError, whatever the width.
C4_WidthErrorAfterPadding ==
    BadWidthDecoded =>
      LET s == cteFile.bytes
      IN  /\ (HdrOffset(s) >= 28 /\ Len(s) >= HdrOffset(s)) =>
               /\ last.tag = "WidthNotMultiple8"
               /\ last.val = <<HdrWidth(s)>>
          /\ HdrOffset(s) < 28 =>
               /\ last.tag = "ImageStartTooSoon"
               /\ last.val = <<HdrOffset(s)>>
          /\ (HdrOffset(s) >= 28 /\ Len(s) < HdrOffset(s)) =>
               last.tag = "IOError"

\* width 10, height also invalid, padding present, payload cut short
C4_Witness ==
    /\ BadWidthDecoded
    /\ HdrWidth(cteFile.bytes) = 10 /\ HdrHeight(cteFile.bytes) = 12
    /\ HdrOffset(cteFile.bytes) = 128
    /\ Len(cteFile.bytes) = 128
    /\ last.tag = "WidthNotMultiple8"

(* -------------------------------- C5 ----------------------------------- *)
\* C5: when the first 4 bytes differ from 00 63 74 65, decode_cte returns
\* InvalideHeader carrying those 4 bytes and has consumed exactly 4 bytes.
C5_BadMagic ==
    (last.cmd = "extract" /\ Len(cteFile.bytes) >= 4
       /\ SubSeq(cteFile.bytes, 1, 4) # <<0, 99, 116, 101>>) =>
      /\ last.tag = "InvalideHeader"
      /\ last.val = SubSeq(cteFile.bytes, 1, 4)
      /\ last.consumed = 4

\* a whole file with a wrong magic, otherwise decodable, was refused
C5_Witness ==
    /\ last.cmd = "extract" /\ last.tag = "InvalideHeader"
    /\ Len(cteFile.bytes) = 128 + 64
    /\ HdrFormatId(cteFile.bytes) = 8 /\ HdrPixelBits(cteFile.bytes) = 8
    /\ HdrWidth(cteFile.bytes) = 8 /\ HdrHeight(cteFile.bytes) = 8
    /\ imgFile = NoImage

(* -------------------------------- C6 ----------------------------------- *)
\* C6: with valid magic, format id and pixel bit length, an offset below 28
\* fails with ImageStartTooSoon(offset) after exactly the 28 header bytes
\* were read; an offset of 28 or more makes decode consume exactly
\* offset - 28 padding bytes, unchecked, so that the first pixel byte read is
\* the one at stream position offset; a stream ending inside the padding
\* gives IOError.
C6_PayloadOffset ==
    (last.cmd = "extract" /\ HdrA8(cteFile.bytes)) =>
      LET s == cteFile.bytes
          off == HdrOffset(s)
          dimsOk == HdrWidth(s) % 8 = 0 /\ HdrHeight(s) % 8 = 0
      IN  /\ off < 28 =>
               /\ last.tag = "ImageStartTooSoon"
               /\ last.val = <<off>>
               /\ last.consumed = 28
          /\ (off >= 28 /\ Len(s) < off) => last.tag = "IOError"
          /\ (off >= 28 /\ Len(s) >= off) =>
               /\ last.tag \in {"Ok", "IOError", "WidthNotMultiple8",
                                "HeightNotMultiple8"}
               \* nothing but the padding was read when the size is refused
               /\ ~dimsOk => last.consumed = off
               /\ last.tag = "IOError" =>
                    dimsOk /\ Len(s) < off + HdrWidth(s) * HdrHeight(s)
               /\ last.tag = "Ok" =>
                    /\ last.consumed = off + HdrWidth(s) * HdrHeight(s)
                    /\ imgFile.px[<<TraversalX(0),
                                    HdrHeight(s) - 8 + TraversalY(0)>>]
                         = PixelOfByte(s[off + 1])

\* a file with two non-zero padding bytes (offset 30) was decoded
C6_Witness ==
    /\ ExtractOk
    /\ HdrOffset(cteFile.bytes) = 30
    /\ cteFile.bytes[29] # 0 /\ cteFile.bytes[30] # 0
    /\ last.consumed = 30 + 64

\* an offset inside the header was refused
C6_WitnessTooSoon ==
    /\ last.cmd = "extract" /\ last.tag = "ImageStartTooSoon"
    /\ HdrOffset(cteFile.bytes) = 27

(* -------------------------------- C7 ----------------------------------- *)
\* C7: a successful encode of a W x H image writes exactly 128 + W*H bytes:
\* 00 63 74 65, then the little-endian u32 fields 8, W, H, 8, 0, 128, then
\* zeros up to byte 127, then one byte per pixel.
C7_EncodedLayout ==
    EncodeOk =>
      LET b == cteFile.bytes
          W == imgFile.width
          H == imgFile.height
      IN  /\ Len(b) = 128 + W * H
          /\ SubSeq(b, 1, 4) = <<0, 99, 116, 101>>
          /\ SubSeq(b, 5, 8) = <<8, 0, 0, 0>>
          /\ SubSeq(b, 9, 12) = <<W % 256, (W \div 256) % 256, 0, 0>>
          /\ SubSeq(b, 13, 16) = <<H % 256, (H \div 256) % 256, 0, 0>>
          /\ SubSeq(b, 17, 20) = <<8, 0, 0, 0>>
          /\ SubSeq(b, 21, 24) = <<0, 0, 0, 0>>
          /\ SubSeq(b, 25, 28) = <<128, 0, 0, 0>>
          /\ \A i \in 29..128 : b[i] = 0
          /\ \A i \in 129..Len(b) : b[i] \in 0..255

\* an 8 x 16 picture was encoded
C7_Witness ==
    /\ EncodeOk
    /\ imgFile.width = 8 /\ imgFile.height = 16
    /\ Len(cteFile.bytes) = 256

(* -------------------------------- C8 ----------------------------------- *)
\* C8: encode of an image whose width is not a multiple of 8 returns
\* WidthNotMultiple8(width), otherwise of one whose height is not a multiple
\* of 8 HeightNotMultiple8(height); no pixel byte has been written then: the
\* output holds the 128 header bytes only.
C8_EncodeDimensionErrors ==
    last.cmd = "encode" =>
      /\ imgFile.width % 8 # 0 =>
           /\ last.tag = "WidthNotMultiple8"
           /\ last.val = <<imgFile.width>>
           /\ Len(cteFile.bytes) = 128
      /\ (imgFile.width % 8 = 0 /\ imgFile.height % 8 # 0) =>
           /\ last.tag = "HeightNotMultiple8"
           /\ last.val = <<imgFile.height>>
           /\ Len(cteFile.bytes) = 128

\* a picture with both sides invalid was refused for its width
C8_Witness ==
    /\ last.cmd = "encode" /\ last.tag = "WidthNotMultiple8"
    /\ imgFile.width = 10 /\ imgFile.height = 12

\* a picture with only the height invalid was refused for its height
C8_WitnessHeight ==
    /\ last.cmd = "encode" /\ last.tag = "HeightNotMultiple8"
    /\ imgFile.width = 16 /\ imgFile.height = 12

(* -------------------------------- C9 ----------------------------------- *)
\* C9: decode(encode(I)) has the dimensions of I and at every (x,y) the
\* pixel (l, l, l, 16*(A div 16)), A the alpha of I there and l the low 4
\* bits of (R+G+B) div 3; alpha 255 comes back as 240 and no packed byte
\* exceeds 255.
C9_EncodeThenDecode ==
    (ExtractOk /\ prev.cmd = "encode" /\ prev.tag = "Ok") =>
      LET I == prev.img
      IN  /\ imgFile.width = I.width /\ imgFile.height = I.height
          /\ \A c \in Coords(I.width, I.height) :
               LET l == Luminance4(I.px[c])
                   A == I.px[c][4]
               IN  /\ imgFile.px[c] = <<l, l, l, 16 * (A \div 16)>>
                   /\ A = 255 => imgFile.px[c][4] = 240
                   /\ 16 * l + (A \div 16) <= 255
          /\ \A i \in 1..Len(cteFile.bytes) : cteFile.bytes[i] <= 255

\* the picture had an opaque pixel (alpha 255) and a pixel whose average
\* does not fit 4 bits
C9_Witness ==
    /\ ExtractOk /\ prev.cmd = "encode" /\ prev.tag = "Ok"
    /\ prev.img.width = 16 /\ prev.img.height = 16
    /\ \E c \in Coords(16, 16) : prev.img.px[c][4] = 255
    /\ \E c \in Coords(16, 16) :
         (prev.img.px[c][1] + prev.img.px[c][2] + prev.img.px[c][3]) \div 3
           >= 16
    /\ imgFile # prev.img

(* -------------------------------- C10 ---------------------------------- *)
\* C10: re-encoding a decoded file reproduces its payload byte for byte:
\* for a valid A8 stream with any payload offset >= 28 and W*H payload
\* bytes, encode(decode(S)) writes the same W*H payload bytes.
C10_DecodeThenEncode ==
    (last.cmd = "encode" /\ prev.cmd = "extract" /\ prev.tag = "Ok") =>
      LET S == prev.cte.bytes
          n == HdrWidth(S) * HdrHeight(S)
      IN  /\ last.tag = "Ok"
          /\ Len(cteFile.bytes) = 128 + n
          /\ \A i \in 0..(n - 1) : cteFile.bytes[128 + i + 1] = PayloadAt(S, i)

\* the decoded file had its payload at offset 30 and four blocks
C10_Witness ==
    /\ EncodeOk /\ prev.cmd = "extract" /\ prev.tag = "Ok"
    /\ HdrOffset(prev.cte.bytes) = 30
    /\ HdrWidth(prev.cte.bytes) = 16 /\ HdrHeight(prev.cte.bytes) = 16
    /\ cteFile # prev.cte

====
